---- MODULE Spec2Model ----
(***************************************************************************)
(* Jupalyse: the historical USD price fetcher (src/src/token-prices.ts)    *)
(* and the route action that drives it (src/src/routes/fetch-usd-prices).  *)
(*                                                                         *)
(* A batch is one run of the route action: it reads the form, calls        *)
(* fetchTokenPrices and stores or removes the API key.  fetchTokenPrices   *)
(* is an async function; every await of the source is a value of pc:       *)
(*   "loop"     at the head of the inner for loop        (line 59)         *)
(*   "fetch"    await fetch(url, ...)                    (line 79)         *)
(*   "cooldown" await new Promise(...setTimeout...)      (line 98)         *)
(*   "retry"    await fetch(url, ...) after the cooldown (line 109)        *)
(*   "json"     await response.json()                    (line 126)        *)
(* The code between two awaits runs to completion and is one action.       *)
(* The provider (Birdeye) and the owner of the AbortSignal are the         *)
(* environment: the provider chooses every answer, the signal may be       *)
(* aborted at any moment.                                                  *)
(*                                                                         *)
(* The second half is the page around the fetcher: the lookups derived     *)
(* from the events (getTokenPricesToFetch), the rounding of a timestamp,   *)
(* and the amounts of one table row as the table (routes/trades.tsx and    *)
(* its later version) and the CSV export (routes/trades-csv.ts) work them  *)
(* out.  These are pure functions; each has a specification that draws     *)
(* its arguments in the initial state and applies the function in a step.  *)
(***************************************************************************)
EXTENDS Integers, Sequences, FiniteSets, TLC

\* ---------------------------------------------------------------- bounds
MaxEntries == 2
MaxPrice == 2
MaxEvents == 3
MaxTimestamp == 200
MaxUnits == 3
MaxScale == 1
MaxDecimals == 2
ExampleRawAmount == 1500000
ExampleDecimals == 6
MaxOrders == 2          \* orders of the user at the provider
MaxFills == 1           \* trades of one order
MaxFee == 1             \* fee of a trade, in units
FillAmount == 2         \* output amount of a trade, in units

\* ------------------------------------------------------- program constants
BucketSeconds == 60

Mints == {"A", "B"}
Timestamps == {10, 20, 70}
Prices == 1..MaxPrice
Batches == {1, 2}
ApiKeys == {"", "k1"}

\* Rounding to the nearest minute instead of down to the minute.
roundToNearestMinute(t) == ((t + 30) \div BucketSeconds) * BucketSeconds

\* src/src/token-prices.ts:45-49
roundTimestampToMinuteBoundary(t) == t - (t % BucketSeconds)

\* src/src/token-prices.ts:67   `${tokenAddress}-${roundedTimestamp}`
FetchedTokenPriceKey(tokenAddress, roundedTimestamp) ==
    <<tokenAddress, roundedTimestamp>>

KeyOf(entry) ==
    FetchedTokenPriceKey(entry[1], roundTimestampToMinuteBoundary(entry[2]))

\* A TokenPricesToFetch object { mint: [timestamps] } is kept as the sequence
\* of (mint, timestamp) pairs in the order the two nested for loops visit
\* them: the pairs of one mint are contiguous, and the timestamps of one
\* mint come in the order of the events, which the loader sorted by date.
\* The mints are named in the order of their first appearance.
IsTokenPricesToFetch(s) ==
    /\ Len(s) > 0 => s[1][1] = "A"
    /\ \A i \in 1..Len(s) : \A j \in 1..Len(s) :
          (i < j /\ s[i][1] = s[j][1]) =>
              /\ s[i][2] <= s[j][2]
              /\ \A k \in i..j : s[k][1] = s[i][1]

TokenPricesToFetchOfLength(n) ==
    {s \in [1..n -> Mints \X Timestamps] : IsTokenPricesToFetch(s)}

AllTokenPricesToFetch ==
    UNION {TokenPricesToFetchOfLength(n) : n \in 0..MaxEntries}

\* The response bodies the provider can send with status 200.
Bodies ==
    {[parses |-> FALSE, success |-> FALSE, items |-> <<>>],
     [parses |-> TRUE, success |-> FALSE, items |-> <<>>],
     [parses |-> TRUE, success |-> TRUE, items |-> <<>>]}
    \cup {[parses |-> TRUE, success |-> TRUE, items |-> <<p>>] : p \in Prices}

EmptyMap == <<>>

VARIABLES
    wanted,          \* tokenPricesToFetch of the page, before the cache filter
    priceCache,      \* the query cache of resolved prices, key -> price
    tokenPrices,     \* the tokenPrices state of the page that keeps no cache
    storedApiKey,    \* localStorage["birdeyeApiKey"], "" when absent
    network,         \* requests the provider has received and not answered
    pc,              \* per batch: where the action is
    tokenPricesToFetch, \* per batch: the parsed form field
    birdeyeApiKey,   \* per batch: the submitted key
    rememberApiKey,  \* per batch: the remember checkbox
    idx,             \* per batch: position of the nested loops
    fetchedTokenPrices, \* per batch: the result map
    aborted,         \* per batch: abortSignal.aborted
    timer,           \* per batch: the cooldown timeout
    requests,        \* per batch: log of the requests sent, in order
    answers,         \* per batch: log of the provider's answers, in order
    abortPoint,      \* per batch: where the batch was when the signal was set
    failure,         \* per batch: why the action rejected
    events,          \* the events of the page, as the loader returns them
    timestamp,       \* a timestamp in seconds that is being looked up
    rounded,         \* the results of rounding it, one per application
    trade,           \* the amounts of the trade of one table row
    mints,           \* the mint data of its input and output mint
    subtractFee,     \* the "Subtract fee" switch of the table
    outputCell,      \* what the "For" cell of the row shows
    restored,        \* the shown amount with the fee put back
    csvRow,          \* the amounts of the row in the CSV export
    dollarAmount,    \* the dollar value under the amount of the "For" cell
    rateCell,        \* what the "Rate" cell of the row shows
    outputPrice,     \* the fetched price of the output mint of the row
    csvUsd,          \* the USD columns of the row in the exported file
    amountCell,      \* what the amount cell of the row shows
    priceLookup,     \* the price of an event as the table and the file find it
    orders,          \* the orders of the user as the provider lists them
    selection,       \* the order keys in the URL of the page
    loaded           \* what the loader of the page returned

\* The state of the page outside the price fetcher.
\* The loader of the page and what it reads.
loaderVars == <<orders, selection, loaded>>

\* The USD side of a row.
usdVars == <<outputPrice, csvUsd, amountCell, priceLookup>>

tableVars == <<events, timestamp, rounded, trade, mints, subtractFee,
               outputCell, restored, csvRow, dollarAmount, rateCell, usdVars,
               loaderVars>>

vars == <<tableVars, wanted, priceCache, tokenPrices, storedApiKey, network, pc, tokenPricesToFetch,
          birdeyeApiKey, rememberApiKey, idx, fetchedTokenPrices, aborted,
          timer, requests, answers, abortPoint, failure>>

Terminal == {"returned", "rejected"}
Running == {"loop", "fetch", "cooldown", "retry", "json"}

NoAbort == [pc |-> "none", resolved |-> {}, sent |-> 0]

\* The page before anything is loaded or shown.
NoEvents == events = <<>>

\* The loader has not run.
NoLoaded == [kind |-> "none", page |-> "none", events |-> <<>>]

NoLoader == orders = <<>> /\ selection = {} /\ loaded = NoLoaded

NoLookup == timestamp = 0 /\ rounded = <<>>

\* src/src/types.ts:73-76   AmountToDisplay.  The amount string is kept as a
\* decimal number units / 10^scale; a raw amount is an integer (scale 0).
Decimal(units, scale) == [units |-> units, scale |-> scale]

AmountToDisplay(amount, adjustedForDecimals) ==
    [amount |-> amount, adjustedForDecimals |-> adjustedForDecimals]

RawAmounts == {AmountToDisplay(Decimal(u, 0), FALSE) : u \in 0..MaxUnits}

AdjustedAmounts ==
    {AmountToDisplay(Decimal(u, s), TRUE) : u \in 0..MaxUnits, s \in 0..MaxScale}

\* src/src/mint-data.ts: the decimals of a mint, when the mint is known.
MintData(known, decimals) == [known |-> known, decimals |-> decimals]

\* A cell or a column that has not been produced.
NoAmount == [kind |-> "none", amount |-> Decimal(0, 0), adjustedForDecimals |-> FALSE]

NoCell == [page |-> "none", shown |-> NoAmount]

NoCsvRow ==
    [kind |-> "none", outAmount |-> Decimal(0, 0),
     outAmountFee |-> Decimal(0, 0), outAmountNet |-> Decimal(0, 0)]

NoDollarAmount ==
    [kind |-> "none", tokenAmount |-> Decimal(0, 0), rounded |-> FALSE,
     value |-> Decimal(0, 0)]

NoRates ==
    [kind |-> "none", rateInputOverOutput |-> Decimal(0, 0),
     rateOutputOverInput |-> Decimal(0, 0)]

\* A price looked up in the fetched prices: undefined when the key is absent.
NoPrice == [known |-> FALSE, value |-> 0]

\* A USD field of the exported file: blank, or a decimal number.
UsdField(blank, value) == [blank |-> blank, value |-> value]

BlankUsd == UsdField(TRUE, Decimal(0, 0))

NoCsvUsd ==
    [kind |-> "none", outAmountUsd |-> BlankUsd, outAmountFeeUsd |-> BlankUsd,
     outAmountNetUsd |-> BlankUsd]

NoAmountCell == [kind |-> "none", usdAmount |-> BlankUsd]

\* No price has been looked up.
NoPriceLookup ==
    [kind |-> "none", mint |-> "", date |-> 0, table |-> NoPrice,
     csv |-> NoPrice]

\* The part of a row that every page leaves alone until it is rendered.
NoValues ==
    /\ dollarAmount = NoDollarAmount
    /\ rateCell = NoRates
    /\ outputPrice = NoPrice
    /\ csvUsd = NoCsvUsd
    /\ amountCell = NoAmountCell
    /\ priceLookup = NoPriceLookup

NoRow ==
    /\ NoValues
    /\ trade = [inputAmount |-> AmountToDisplay(Decimal(1, 0), FALSE),
                outputAmount |-> AmountToDisplay(Decimal(1, 0), FALSE),
                fee |-> AmountToDisplay(Decimal(0, 0), FALSE)]
    /\ mints = [input |-> MintData(TRUE, 0), output |-> MintData(TRUE, 0)]
    /\ subtractFee = FALSE
    /\ outputCell = NoCell
    /\ restored = NoAmount
    /\ csvRow = NoCsvRow

InitTable == NoEvents /\ NoLookup /\ NoRow /\ NoLoader

\* The fetcher before the first submission, on a page whose lookups are w.
InitFetcher(w) ==
    /\ wanted = w
    /\ priceCache = EmptyMap
    /\ tokenPrices = EmptyMap
    /\ storedApiKey = ""
    /\ network = {}
    /\ pc = [b \in Batches |-> "idle"]
    /\ tokenPricesToFetch = [b \in Batches |-> <<>>]
    /\ birdeyeApiKey = [b \in Batches |-> ""]
    /\ rememberApiKey = [b \in Batches |-> FALSE]
    /\ idx = [b \in Batches |-> 1]
    /\ fetchedTokenPrices = [b \in Batches |-> EmptyMap]
    /\ aborted = [b \in Batches |-> FALSE]
    /\ timer = [b \in Batches |-> "none"]
    /\ requests = [b \in Batches |-> <<>>]
    /\ answers = [b \in Batches |-> <<>>]
    /\ abortPoint = [b \in Batches |-> NoAbort]
    /\ failure = [b \in Batches |-> "none"]

InitWith(w) == InitTable /\ InitFetcher(w)

Init == \E w \in AllTokenPricesToFetch : InitWith(w)

\* ------------------------------------------------------------- helpers

Put(map, key, value) == (key :> value) @@ map

\* The action without its credential check.
CredentialNotChecked(key) == FALSE

\* src/src/routes/fetch-usd-prices.tsx:11   if (!birdeyeApiKey)
MissingCredential(key) == key = ""

\* The loop without its skip of a key it already holds.
NeverAlreadyFetched(map, key) == FALSE

\* src/src/token-prices.ts:68   if (fetchedTokenPrices[key]) continue;
\* The test is JavaScript truthiness: an absent key and a price of 0 both fail it.
AlreadyFetched(map, key) == key \in DOMAIN map /\ map[key] # 0

\* The page's lookups minus the ones the cache already holds
\* (getTokenPricesToFetch(events, alreadyFetchedTokenPrices) of the caller).
getTokenPricesToFetch(entries, alreadyFetchedTokenPrices) ==
    SelectSeq(entries, LAMBDA e : KeyOf(e) \notin DOMAIN alreadyFetchedTokenPrices)

\* The write of a resolved price into the query cache.
setCachedPrice(cache, key, price) == Put(cache, key, price)

\* One entry of the log of answers.
Answer(kind, price) == [kind |-> kind, price |-> price]

\* src/src/token-prices.ts:128-131
NoPriceInBody(body) == ~body.success \/ Len(body.items) = 0

\* An empty list recorded as a "no data" marker instead of being left out.
RecordBodyWithMarker(map, key, body) ==
    IF ~body.success THEN map
    ELSE Put(map, key, IF Len(body.items) = 0 THEN 0 ELSE body.items[1])

\* src/src/token-prices.ts:128-139: what the body leaves in the result map.
RecordBody(map, key, body) ==
    IF NoPriceInBody(body) THEN map ELSE Put(map, key, body.items[1])

\* The log entry of a body that parsed.
AnswerOfBody(body) ==
    IF ~body.success THEN Answer("unsuccessful", 0)
    ELSE IF Len(body.items) = 0 THEN Answer("empty", 0)
    ELSE Answer("price", body.items[1])

\* The loop without its check of the signal.
SignalIgnored(b) == FALSE

\* src/src/token-prices.ts:60   if (abortSignal.aborted)
SignalAborted(b) == aborted[b]

\* The nested loops walking the lookups from the last one to the first.
LastEntryFirst(b) ==
    tokenPricesToFetch[b][Len(tokenPricesToFetch[b]) - idx[b] + 1]

\* src/src/token-prices.ts:58-59: the entry the nested for loops are at.
CurrentEntry(b) == tokenPricesToFetch[b][idx[b]]
CurrentKey(b) == KeyOf(CurrentEntry(b))
InLoop(b) == pc[b] = "loop" /\ idx[b] <= Len(tokenPricesToFetch[b])
Request(b, attempt) ==
    [batch |-> b, seq |-> Len(requests[b]) + 1, key |-> CurrentKey(b),
     attempt |-> attempt]
InFlight(b) == {r \in network : r.batch = b}

\* fetch() called without `await`: the loop goes on while the request is out.
FetchWithoutAwait(b, attempt, at) ==
    /\ network' = network \cup {Request(b, attempt)}
    /\ requests' = [requests EXCEPT ![b] = Append(@, <<CurrentKey(b), attempt>>)]
    /\ pc' = [pc EXCEPT ![b] = "loop"]

\* src/src/token-prices.ts:79-85 and 109-115: fetch() hands the request to the
\* provider and the function waits for the answer at `await`.
AwaitFetch(b, attempt, at) ==
    /\ network' = network \cup {Request(b, attempt)}
    /\ requests' = [requests EXCEPT ![b] = Append(@, <<CurrentKey(b), attempt>>)]
    /\ pc' = [pc EXCEPT ![b] = at]

\* The answer to the request of batch b has arrived (or the request was
\* cancelled): it is no longer in flight.
Answered(b, answer) ==
    /\ network' = network \ InFlight(b)
    /\ answers' = [answers EXCEPT ![b] = Append(@, Answer(answer, 0))]

\* A loop that tries the same entry again.
RepeatEntry(b) ==
    /\ idx' = idx
    /\ pc' = [pc EXCEPT ![b] = "loop"]

\* `continue`: the key is left out of the map and the loop goes on.
Continue(b) ==
    /\ idx' = [idx EXCEPT ![b] = @ + 1]
    /\ pc' = [pc EXCEPT ![b] = "loop"]

\* A rejected promise propagates out of fetchTokenPrices and out of the action.
Reject(b, why) ==
    /\ pc' = [pc EXCEPT ![b] = "rejected"]
    /\ failure' = [failure EXCEPT ![b] = why]

\* A cooldown that registers no abort listener: the timeout keeps running.
ListenerMissing(b) == UNCHANGED <<timer, pc, failure>>

\* src/src/token-prices.ts:101-104: the listener the cooldown registers.
AbortListener(b) ==
    /\ timer' = [timer EXCEPT ![b] = "cleared"]
    /\ Reject(b, "aborted")

\* An action that stores the submitted key whatever the checkbox says.
ActionTailAlwaysStores(b) ==
    /\ storedApiKey' = birdeyeApiKey[b]
    /\ pc' = [pc EXCEPT ![b] = "returned"]

\* src/src/routes/fetch-usd-prices.tsx:31-37
ActionTail(b) ==
    /\ storedApiKey' = IF rememberApiKey[b] THEN birdeyeApiKey[b] ELSE ""
    /\ pc' = [pc EXCEPT ![b] = "returned"]

\* ------------------------------------------------------------- actions

\* src/src/routes/fetch-usd-prices.tsx:5-29: read the form, check the
\* preconditions, parse the field and enter fetchTokenPrices (line 56).
Submit(b, key, remember, hasField) ==
    /\ pc[b] = "idle"
    /\ birdeyeApiKey' = [birdeyeApiKey EXCEPT ![b] = key]
    /\ rememberApiKey' = [rememberApiKey EXCEPT ![b] = remember]
    /\ IF MissingCredential(key)
          THEN Reject(b, "credential") /\ UNCHANGED tokenPricesToFetch
          ELSE IF ~hasField
                  THEN Reject(b, "field") /\ UNCHANGED tokenPricesToFetch
                  ELSE /\ tokenPricesToFetch' =
                            [tokenPricesToFetch EXCEPT ![b] =
                                getTokenPricesToFetch(wanted, priceCache)]
                       /\ pc' = [pc EXCEPT ![b] = "loop"]
                       /\ UNCHANGED failure
    /\ UNCHANGED <<tableVars, wanted, tokenPrices, priceCache, storedApiKey, network, idx,
                   fetchedTokenPrices, aborted, timer, requests, answers,
                   abortPoint>>

\* One batch after the other: the form is submitted again once the previous
\* action has settled.
SubmitNext(b) ==
    /\ \A earlier \in Batches : earlier < b => pc[earlier] \in Terminal
    /\ \E key \in ApiKeys, remember \in BOOLEAN, hasField \in BOOLEAN :
          Submit(b, key, remember, hasField)

\* A second call that starts while the first one is still running.
SubmitOverlapping(b) ==
    /\ \A earlier \in Batches : earlier < b => pc[earlier] # "idle"
    /\ \E key \in ApiKeys, remember \in BOOLEAN, hasField \in BOOLEAN :
          Submit(b, key, remember, hasField)

\* src/src/token-prices.ts:60-62
ReturnOnAbort(b) ==
    /\ InLoop(b)
    /\ SignalAborted(b)
    /\ ActionTail(b)
    /\ UNCHANGED <<tableVars, wanted, tokenPrices, priceCache, network, tokenPricesToFetch,
                   birdeyeApiKey, rememberApiKey, idx, fetchedTokenPrices,
                   aborted, timer, requests, answers, abortPoint, failure>>

\* src/src/token-prices.ts:142
ReturnAtEnd(b) ==
    /\ pc[b] = "loop"
    /\ idx[b] > Len(tokenPricesToFetch[b])
    /\ ActionTail(b)
    /\ UNCHANGED <<tableVars, wanted, tokenPrices, priceCache, network, tokenPricesToFetch,
                   birdeyeApiKey, rememberApiKey, idx, fetchedTokenPrices,
                   aborted, timer, requests, answers, abortPoint, failure>>

\* src/src/token-prices.ts:65-68
SkipFetched(b) ==
    /\ InLoop(b)
    /\ ~SignalAborted(b)
    /\ AlreadyFetched(fetchedTokenPrices[b], CurrentKey(b))
    /\ idx' = [idx EXCEPT ![b] = @ + 1]
    /\ UNCHANGED <<tableVars, wanted, tokenPrices, priceCache, storedApiKey, network, pc,
                   tokenPricesToFetch, birdeyeApiKey, rememberApiKey,
                   fetchedTokenPrices, aborted, timer, requests, answers,
                   abortPoint, failure>>

\* src/src/token-prices.ts:70-85
SendRequest(b) ==
    /\ InLoop(b)
    /\ ~SignalAborted(b)
    /\ ~AlreadyFetched(fetchedTokenPrices[b], CurrentKey(b))
    /\ AwaitFetch(b, "first", "fetch")
    /\ UNCHANGED <<tableVars, wanted, tokenPrices, priceCache, storedApiKey, tokenPricesToFetch,
                   birdeyeApiKey, rememberApiKey, idx, fetchedTokenPrices,
                   aborted, timer, answers, abortPoint, failure>>

\* fetch() rejects (the transport failed): nothing catches it.
FetchFails(b) ==
    /\ pc[b] \in {"fetch", "retry"}
    /\ Answered(b, "neterr")
    /\ Reject(b, "network")
    /\ UNCHANGED <<tableVars, wanted, tokenPrices, priceCache, storedApiKey, tokenPricesToFetch,
                   birdeyeApiKey, rememberApiKey, idx, fetchedTokenPrices,
                   aborted, timer, requests, abortPoint>>

\* src/src/token-prices.ts:87-105: the first answer is 429; start the cooldown
\* timer, register the abort listener and wait.
RateLimited(b) ==
    /\ pc[b] = "fetch"
    /\ Answered(b, "429")
    /\ timer' = [timer EXCEPT ![b] = "armed"]
    /\ pc' = [pc EXCEPT ![b] = "cooldown"]
    /\ UNCHANGED <<tableVars, wanted, tokenPrices, priceCache, storedApiKey, tokenPricesToFetch,
                   birdeyeApiKey, rememberApiKey, idx, fetchedTokenPrices,
                   aborted, requests, abortPoint, failure>>

\* src/src/token-prices.ts:99 and 107-115: the timeout fires, the promise
\* resolves and the same URL is fetched again.
CooldownEnds(b) ==
    /\ pc[b] = "cooldown"
    /\ timer[b] = "armed"
    /\ timer' = [timer EXCEPT ![b] = "fired"]
    /\ AwaitFetch(b, "retry", "retry")
    /\ UNCHANGED <<tableVars, wanted, tokenPrices, priceCache, storedApiKey, tokenPricesToFetch,
                   birdeyeApiKey, rememberApiKey, idx, fetchedTokenPrices,
                   aborted, answers, abortPoint, failure>>

\* src/src/token-prices.ts:118-123: a status that is not 200 (a 429 only
\* when it answers the retry).
StatusNotOk(b, status) ==
    /\ \/ pc[b] = "fetch" /\ status = "500"
       \/ pc[b] = "retry" /\ status \in {"429", "500"}
    /\ Answered(b, status)
    /\ Continue(b)
    /\ UNCHANGED <<tableVars, wanted, tokenPrices, priceCache, storedApiKey, tokenPricesToFetch,
                   birdeyeApiKey, rememberApiKey, fetchedTokenPrices, aborted,
                   timer, requests, abortPoint, failure>>

\* src/src/token-prices.ts:125-126: status 200, read the body.
StatusOk(b) ==
    /\ pc[b] \in {"fetch", "retry"}
    /\ network' = network \ InFlight(b)
    /\ pc' = [pc EXCEPT ![b] = "json"]
    /\ UNCHANGED <<tableVars, wanted, tokenPrices, priceCache, storedApiKey, tokenPricesToFetch,
                   birdeyeApiKey, rememberApiKey, idx, fetchedTokenPrices,
                   aborted, timer, requests, answers, abortPoint, failure>>

\* src/src/token-prices.ts:126: response.json() rejects on a body that is not
\* JSON of the expected shape.
BodyMalformed(b) ==
    /\ pc[b] = "json"
    /\ answers' = [answers EXCEPT ![b] = Append(@, Answer("malformed", 0))]
    /\ Reject(b, "body")
    /\ UNCHANGED <<tableVars, wanted, tokenPrices, priceCache, storedApiKey, network,
                   tokenPricesToFetch, birdeyeApiKey, rememberApiKey, idx,
                   fetchedTokenPrices, aborted, timer, requests, abortPoint>>

\* src/src/token-prices.ts:125-139: the body is read; without a price the key
\* is left out (`continue`), with one the first item is stored.
BodyRead(b, body) ==
    /\ pc[b] = "json"
    /\ body.parses
    /\ answers' = [answers EXCEPT ![b] = Append(@, AnswerOfBody(body))]
    /\ fetchedTokenPrices' =
          [fetchedTokenPrices EXCEPT ![b] = RecordBody(@, CurrentKey(b), body)]
    /\ priceCache' = IF NoPriceInBody(body)
                        THEN priceCache
                        ELSE setCachedPrice(priceCache, CurrentKey(b), body.items[1])
    /\ Continue(b)
    /\ UNCHANGED <<tableVars, wanted, tokenPrices, storedApiKey, network, tokenPricesToFetch,
                   birdeyeApiKey, rememberApiKey, aborted, timer, requests,
                   abortPoint, failure>>

\* The owner of the signal aborts it.  At the loop head nothing is waiting on
\* the signal.  A pending fetch or body read rejects with AbortError
\* (lines 84, 114, 126); during the cooldown the listener clears the timeout
\* and rejects the promise (lines 101-104).
Abort(b) ==
    /\ pc[b] \in Running
    /\ ~aborted[b]
    /\ aborted' = [aborted EXCEPT ![b] = TRUE]
    /\ abortPoint' = [abortPoint EXCEPT ![b] =
                         [pc |-> pc[b],
                          resolved |-> DOMAIN fetchedTokenPrices[b],
                          sent |-> Len(requests[b])]]
    /\ CASE pc[b] = "loop" ->
                UNCHANGED <<network, answers, timer, pc, failure>>
         [] pc[b] \in {"fetch", "retry"} ->
                Answered(b, "aborted") /\ Reject(b, "aborted") /\ UNCHANGED timer
         [] pc[b] = "json" ->
                /\ answers' = [answers EXCEPT ![b] = Append(@, Answer("aborted", 0))]
                /\ Reject(b, "aborted")
                /\ UNCHANGED <<network, timer>>
         [] pc[b] = "cooldown" ->
                AbortListener(b) /\ UNCHANGED <<network, answers>>
    /\ UNCHANGED <<tableVars, wanted, tokenPrices, priceCache, storedApiKey, tokenPricesToFetch,
                   birdeyeApiKey, rememberApiKey, idx, fetchedTokenPrices,
                   requests>>

\* The loop of fetchTokenPrices.
LoopSteps(b) ==
    \/ ReturnAtEnd(b)
    \/ SkipFetched(b)
    \/ SendRequest(b)

\* The provider answers and the cooldown timer fires.
ProviderSteps(b) ==
    \/ RateLimited(b)
    \/ CooldownEnds(b)
    \/ \E status \in {"429", "500"} : StatusNotOk(b, status)
    \/ StatusOk(b)
    \/ \E body \in Bodies : BodyRead(b, body)

\* The transport fails or the body cannot be read.
FailureSteps(b) ==
    \/ FetchFails(b)
    \/ BodyMalformed(b)

\* The signal is aborted and the loop sees it.
CancelSteps(b) ==
    \/ Abort(b)
    \/ ReturnOnAbort(b)

Step(b) == LoopSteps(b) \/ ProviderSteps(b) \/ FailureSteps(b) \/ CancelSteps(b)

\* One batch, every input of at most MaxEntries lookups.
Next == SubmitNext(1) \/ Step(1)

Spec == Init /\ [][Next]_vars

\* The steps that go on by themselves: the code runs on after each await,
\* every request is answered or fails, every cooldown timer fires.
Progress(b) ==
    LoopSteps(b) \/ ProviderSteps(b) \/ FailureSteps(b) \/ ReturnOnAbort(b)

SpecLive == Init /\ [][Next]_vars /\ WF_vars(Progress(1))

\* Two batches, the second submitted after the first has settled.
SubmitAgain(b) ==
    /\ \A earlier \in Batches : earlier < b => pc[earlier] \in Terminal
    /\ Submit(b, "k1", FALSE, TRUE)

NextCache ==
    \E b \in Batches :
        SubmitAgain(b) \/ LoopSteps(b) \/ ProviderSteps(b) \/ FailureSteps(b)

SpecCache == Init /\ [][NextCache]_vars

\* Two batches, the second submitted while the first is running.
InitOverlap == InitWith(<<<<"A", 10>>>>)

NextOverlap ==
    \E b \in Batches :
        \/ SubmitOverlapping(b)
        \/ ReturnAtEnd(b)
        \/ SendRequest(b)
        \/ ProviderSteps(b)
        \/ FailureSteps(b)
        \/ CancelSteps(b)

SpecOverlap == InitOverlap /\ [][NextOverlap]_vars

\* One batch of five distinct keys in which the signal is aborted as soon as
\* a key has resolved, and at no other moment.
FiveKeys ==
    <<<<"A", 10>>, <<"A", 70>>, <<"A", 130>>, <<"B", 10>>, <<"B", 70>>>>

InitFive == InitWith(FiveKeys)

NothingResolved(b) == DOMAIN fetchedTokenPrices[b] = {}

NextFive ==
    \/ SubmitNext(1)
    \/ /\ NothingResolved(1) \/ aborted[1]
       /\ \/ ReturnAtEnd(1)
          \/ SendRequest(1)
          \/ ProviderSteps(1)
          \/ FailureSteps(1)
          \/ ReturnOnAbort(1)
    \/ ~NothingResolved(1) /\ Abort(1)

SpecFive == InitFive /\ [][NextFive]_vars

\* The page that keeps its prices in component state (routes/trades.tsx with
\* routes/fetch-usd-values.tsx).  It has no cache: every submission asks for
\* all the lookups of the page, getTokenPricesToFetch(events), and priceCache
\* is not read.
\* src/src/routes/fetch-usd-values.tsx:5-27 and src/src/routes/trades.tsx:1076-1079
SubmitValues(b) ==
    /\ pc[b] = "idle"
    /\ \A earlier \in Batches : earlier < b => pc[earlier] \in {"closed", "rejected"}
    /\ birdeyeApiKey' = [birdeyeApiKey EXCEPT ![b] = "k1"]
    /\ tokenPricesToFetch' = [tokenPricesToFetch EXCEPT ![b] = wanted]
    /\ pc' = [pc EXCEPT ![b] = "loop"]
    /\ UNCHANGED <<tableVars, wanted, tokenPrices, priceCache, storedApiKey, network,
                   rememberApiKey, idx, fetchedTokenPrices, aborted, timer,
                   requests, answers, abortPoint, failure>>

\* src/src/routes/trades.tsx:1002-1008: the effect that runs once the fetcher
\* is idle with data: setTokenPrices(fetcher.data); onClose().
PassDataBack(b) ==
    /\ pc[b] = "returned"
    /\ tokenPrices' = fetchedTokenPrices[b]
    /\ pc' = [pc EXCEPT ![b] = "closed"]
    /\ UNCHANGED <<tableVars, wanted, priceCache, storedApiKey, network,
                   tokenPricesToFetch, birdeyeApiKey, rememberApiKey, idx,
                   fetchedTokenPrices, aborted, timer, requests, answers,
                   abortPoint, failure>>

NextValues ==
    \E b \in Batches :
        \/ SubmitValues(b)
        \/ PassDataBack(b)
        \/ LoopSteps(b)
        \/ ProviderSteps(b)
        \/ FailureSteps(b)

SpecValues == Init /\ [][NextValues]_vars

\* Two submissions of a page with two lookups of one minute, one after the
\* other, each with any key, either position of the checkbox, and a cancel at
\* any moment.
InitStorage == InitWith(<<<<"A", 10>>, <<"A", 20>>>>)

NextStorage == \E b \in Batches : SubmitNext(b) \/ Step(b)

SpecStorage == InitStorage /\ [][NextStorage]_vars

\* ------------------------------------------------- the lookups of a page

\* Date.getTime() values, in milliseconds.
EventDates == {10000, 20500, 70000, 130000}

\* src/src/types.ts:80-103: the fields of Trade and Deposit the lookups use.
Trades ==
    {[kind |-> "trade", inputMint |-> i, outputMint |-> o, date |-> d] :
        i \in Mints, o \in Mints, d \in EventDates}

Deposits ==
    {[kind |-> "deposit", inputMint |-> i, outputMint |-> i, date |-> d] :
        i \in Mints, d \in EventDates}

\* src/src/routes/trades.tsx:310-312: the loader sorts the events by date.
\* A trade swaps one mint for another.
IsEvents(es) ==
    /\ \A i \in 1..Len(es) :
          es[i].kind = "trade" => es[i].inputMint # es[i].outputMint
    /\ \A i \in 1..(Len(es) - 1) : es[i].date <= es[i + 1].date

AllEvents ==
    UNION {{es \in [1..n -> Trades \cup Deposits] : IsEvents(es)} :
              n \in 0..MaxEvents}

\* src/src/token-prices.ts:19   Math.floor(date.getTime() / 1000)
TimestampOf(event) == event.date \div 1000

\* src/src/token-prices.ts:17-29: the pushes of the loop, in order.
RECURSIVE Pushes(_)
Pushes(es) ==
    IF es = <<>> THEN <<>>
    ELSE LET event == Head(es)
             seconds == TimestampOf(event)
         IN  (IF event.kind = "trade"
                 THEN <<<<event.inputMint, seconds>>,
                        <<event.outputMint, seconds>>>>
                 ELSE <<<<event.inputMint, seconds>>>>)
             \o Pushes(Tail(es))

\* The object { mint: [timestamps] } as the nested loops of fetchTokenPrices
\* read it: the mints in the order they were first inserted, the timestamps
\* of one mint in the order they were pushed.
RECURSIVE GroupByMint(_)
GroupByMint(pushes) ==
    IF pushes = <<>> THEN <<>>
    ELSE LET mint == pushes[1][1]
         IN  SelectSeq(pushes, LAMBDA p : p[1] = mint)
             \o GroupByMint(SelectSeq(pushes, LAMBDA p : p[1] # mint))

\* src/src/token-prices.ts:12-32   getTokenPricesToFetch(events)
getTokenPricesToFetchOfEvents(es) == GroupByMint(Pushes(es))

\* src/src/routes/trades.tsx:1076-1079: the page derives its lookups.
DeriveLookups ==
    /\ wanted = <<>>
    /\ events # <<>>
    /\ wanted' = getTokenPricesToFetchOfEvents(events)
    /\ UNCHANGED <<tableVars, tokenPrices, priceCache, storedApiKey, network,
                   pc, tokenPricesToFetch, birdeyeApiKey, rememberApiKey, idx,
                   fetchedTokenPrices, aborted, timer, requests, answers,
                   abortPoint, failure>>

InitEvents ==
    /\ InitFetcher(<<>>)
    /\ NoLoader
    /\ NoLookup
    /\ NoRow
    /\ \E es \in AllEvents : events = es

NextEvents == DeriveLookups

SpecEvents == InitEvents /\ [][NextEvents]_vars

\* ------------------------------------------------- rounding a timestamp

\* src/src/token-prices.ts:65 (and trades-csv.ts:153): the timestamp of a
\* lookup is rounded; applied again, the function is given its own result.
RoundTimestamp ==
    /\ Len(rounded) < 2
    /\ rounded' = Append(rounded,
                     roundTimestampToMinuteBoundary(
                         IF rounded = <<>> THEN timestamp
                                           ELSE rounded[Len(rounded)]))
    /\ UNCHANGED <<loaderVars, usdVars, events, timestamp, trade, mints, subtractFee, outputCell,
                   restored, csvRow, dollarAmount, rateCell, wanted, tokenPrices, priceCache,
                   storedApiKey, network, pc, tokenPricesToFetch,
                   birdeyeApiKey, rememberApiKey, idx, fetchedTokenPrices,
                   aborted, timer, requests, answers, abortPoint, failure>>

InitRounding ==
    /\ InitFetcher(<<>>)
    /\ NoLoader
    /\ NoEvents
    /\ NoRow
    /\ rounded = <<>>
    /\ timestamp \in 0..MaxTimestamp

NextRounding == RoundTimestamp

SpecRounding == InitRounding /\ [][NextRounding]_vars

\* ------------------------------------------------- the amounts of a row

RECURSIVE Pow10(_)
Pow10(n) == IF n = 0 THEN 1 ELSE 10 * Pow10(n - 1)

Larger(a, b) == IF a >= b THEN a ELSE b

\* The same decimal number written with more fractional digits.
Rescale(d, scale) == Decimal(d.units * Pow10(scale - d.scale), scale)

\* The decimal number without trailing zeros in its fraction.
RECURSIVE Normalize(_)
Normalize(d) ==
    IF d.scale > 0 /\ d.units % 10 = 0
        THEN Normalize(Decimal(d.units \div 10, d.scale - 1))
        ELSE d

\* js-big-decimal add and subtract: exact arithmetic on decimal strings.
BigDecimalAdd(a, b) ==
    LET scale == Larger(a.scale, b.scale)
    IN  Decimal(Rescale(a, scale).units + Rescale(b, scale).units, scale)

\* A subtraction that takes the digits of both numbers as they stand.
SubtractIgnoringScale(a, b) == Decimal(a.units - b.units, a.scale)

BigDecimalSubtract(a, b) ==
    LET scale == Larger(a.scale, b.scale)
    IN  Decimal(Rescale(a, scale).units - Rescale(b, scale).units, scale)

\* An amount as a cell shows it, and the render that threw.
Shown(amountToDisplay) ==
    [kind |-> "amount", amount |-> amountToDisplay.amount,
     adjustedForDecimals |-> amountToDisplay.adjustedForDecimals]

Thrown == [kind |-> "error", amount |-> Decimal(0, 0), adjustedForDecimals |-> FALSE]

\* src/src/routes/trades.tsx:782-785
EncodingMismatch(outputAmountToDisplay, feeToDisplay) ==
    outputAmountToDisplay.adjustedForDecimals # feeToDisplay.adjustedForDecimals

\* src/src/routes/trades.tsx:765-801: the page that stores the amount before
\* the fee and subtracts the fee when the switch is on.
adjustOutputAmountForFee(outputAmountToDisplay, feeToDisplay, subtract) ==
    IF ~subtract THEN Shown(outputAmountToDisplay)
    ELSE IF EncodingMismatch(outputAmountToDisplay, feeToDisplay) THEN Thrown
    ELSE IF outputAmountToDisplay.adjustedForDecimals
        THEN Shown(AmountToDisplay(
                 BigDecimalSubtract(outputAmountToDisplay.amount,
                                    feeToDisplay.amount), TRUE))
        ELSE Shown(AmountToDisplay(
                 Decimal(outputAmountToDisplay.amount.units
                            - feeToDisplay.amount.units, 0), FALSE))

\* src/unnamed/part_016:716-753: the page that stores the amount after the fee
\* and adds the fee when the switch is off.
adjustOutputAmountForFeeAdding(outputAmountToDisplay, feeToDisplay, subtract) ==
    IF subtract THEN Shown(outputAmountToDisplay)
    ELSE IF EncodingMismatch(outputAmountToDisplay, feeToDisplay) THEN Thrown
    ELSE IF outputAmountToDisplay.adjustedForDecimals
        THEN Shown(AmountToDisplay(
                 BigDecimalAdd(outputAmountToDisplay.amount,
                               feeToDisplay.amount), TRUE))
        ELSE Shown(AmountToDisplay(
                 Decimal(outputAmountToDisplay.amount.units
                            + feeToDisplay.amount.units, 0), FALSE))

\* src/src/routes/trades-csv.ts:139-146   `${amount}E-${decimals}`
getAmountBigDecimal(amountToDisplay, decimals) ==
    IF amountToDisplay.adjustedForDecimals
        THEN amountToDisplay.amount
        ELSE Decimal(amountToDisplay.amount.units,
                     amountToDisplay.amount.scale + decimals)

\* src/src/routes/trades-csv.ts:177-213: the amount columns of a trade.
csvDataForTrade(t, outputMintData) ==
    IF outputMintData.known \/ t.outputAmount.adjustedForDecimals
        THEN LET decimals == IF outputMintData.known
                                THEN outputMintData.decimals ELSE 0
                 outputAmountNetBigDecimal ==
                     getAmountBigDecimal(t.outputAmount, decimals)
                 outputFeeBigDecimal == getAmountBigDecimal(t.fee, decimals)
             IN  [kind |-> "row",
                  outAmount |-> BigDecimalAdd(outputAmountNetBigDecimal,
                                              outputFeeBigDecimal),
                  outAmountFee |-> outputFeeBigDecimal,
                  outAmountNet |-> outputAmountNetBigDecimal]
        ELSE [NoCsvRow EXCEPT !.kind = "blank"]

\* The cell of the page `page` for the switch position `subtract`.
RenderOutputCell(page, subtract) ==
    [page |-> page,
     shown |-> IF page = "values"
                  THEN adjustOutputAmountForFee(trade.outputAmount, trade.fee,
                                                subtract)
                  ELSE adjustOutputAmountForFeeAdding(trade.outputAmount,
                                                      trade.fee, subtract)]

\* src/src/routes/trades.tsx:1069 and 828-831, src/unnamed/part_016:1037: the
\* first render of the row; the switch starts off on the page that stores the
\* amount before the fee and on on the page that stores it after the fee.
ShowRow(page) ==
    /\ outputCell.page = "none"
    /\ subtractFee' = (page = "prices")
    /\ outputCell' = RenderOutputCell(page, page = "prices")
    /\ UNCHANGED <<loaderVars, usdVars, events, timestamp, rounded, trade, mints, restored, csvRow,
                   dollarAmount, rateCell,
                   wanted, tokenPrices, priceCache, storedApiKey, network, pc,
                   tokenPricesToFetch, birdeyeApiKey, rememberApiKey, idx,
                   fetchedTokenPrices, aborted, timer, requests, answers,
                   abortPoint, failure>>

\* src/src/routes/trades.tsx:1156: the switch is flipped and the row is
\* rendered again.
SwitchSubtractFee ==
    /\ outputCell.page # "none"
    /\ outputCell.shown.kind = "amount"
    /\ subtractFee' = ~subtractFee
    /\ outputCell' = RenderOutputCell(outputCell.page, ~subtractFee)
    /\ UNCHANGED <<loaderVars, usdVars, events, timestamp, rounded, trade, mints, restored, csvRow,
                   dollarAmount, rateCell,
                   wanted, tokenPrices, priceCache, storedApiKey, network, pc,
                   tokenPricesToFetch, birdeyeApiKey, rememberApiKey, idx,
                   fetchedTokenPrices, aborted, timer, requests, answers,
                   abortPoint, failure>>

\* The amount a cell shows after the fee is given back to the function that
\* adds the fee.
AddFeeBack ==
    /\ outputCell.page = "values"
    /\ subtractFee
    /\ outputCell.shown.kind = "amount"
    /\ restored.kind = "none"
    /\ restored' = adjustOutputAmountForFeeAdding(
                       AmountToDisplay(outputCell.shown.amount,
                                       outputCell.shown.adjustedForDecimals),
                       trade.fee, FALSE)
    /\ UNCHANGED <<loaderVars, usdVars, events, timestamp, rounded, trade, mints, subtractFee,
                   outputCell, csvRow, dollarAmount, rateCell, wanted, tokenPrices, priceCache,
                   storedApiKey, network, pc, tokenPricesToFetch,
                   birdeyeApiKey, rememberApiKey, idx, fetchedTokenPrices,
                   aborted, timer, requests, answers, abortPoint, failure>>

\* js-big-decimal multiply: exact arithmetic on decimal strings.
BigDecimalMultiply(a, b) == Decimal(a.units * b.units, a.scale + b.scale)

Abs(n) == IF n < 0 THEN -n ELSE n

\* js-big-decimal round(precision): the number rounded (half to even) to
\* `precision` fractional digits; a number with fewer digits is unchanged.
BigDecimalRound(d, precision) ==
    IF d.scale <= precision THEN d
    ELSE LET p == Pow10(d.scale - precision)
             q == Abs(d.units) \div p
             r == Abs(d.units) % p
             m == IF 2 * r > p \/ (2 * r = p /\ q % 2 = 1) THEN q + 1 ELSE q
         IN  Decimal(IF d.units < 0 THEN -m ELSE m, precision)

\* js-big-decimal getPrettyValue(): the integer digits in groups of three
\* separated by ","; a number of four or more integer digits has a comma.
Grouped(field) ==
    ~field.blank /\ Abs(field.value.units) \div Pow10(field.value.scale) >= 1000

\* js-big-decimal constructor: "" is taken as 0, and a string that is not a
\* number (one with a comma) throws "Parameter is not a number".
NotANumber(field) == Grouped(field)

BigDecimalOfField(field) == IF field.blank THEN Decimal(0, 0) ELSE field.value

\* src/src/routes/trades-csv.ts:158-175
getUsdAmount(price, mintAmount, mintData) ==
    IF ~price.known \/ price.value = 0 THEN BlankUsd
    ELSE IF mintData.known \/ mintAmount.adjustedForDecimals
        THEN LET mintDecimals == IF mintData.known THEN mintData.decimals ELSE 0
             IN  UsdField(FALSE,
                     BigDecimalRound(
                         BigDecimalMultiply(
                             getAmountBigDecimal(mintAmount, mintDecimals),
                             Decimal(price.value, 0)), 6))
        ELSE BlankUsd

\* src/src/routes/trades-csv.ts:215-245: the USD columns of a trade; the net
\* value is the difference of the two USD strings read back as numbers.
csvDataForTradeUsd(t, outputMintData, outUsdPrice) ==
    LET outAmountUsd == getUsdAmount(outUsdPrice, t.outputAmount, outputMintData)
        outAmountFeeUsd == getUsdAmount(outUsdPrice, t.fee, outputMintData)
    IN  IF NotANumber(outAmountUsd) \/ NotANumber(outAmountFeeUsd)
            THEN [NoCsvUsd EXCEPT !.kind = "error"]
            ELSE [kind |-> "row",
                  outAmountUsd |-> outAmountUsd,
                  outAmountFeeUsd |-> outAmountFeeUsd,
                  outAmountNetUsd |->
                      UsdField(FALSE,
                          BigDecimalRound(
                              BigDecimalSubtract(
                                  BigDecimalOfField(outAmountUsd),
                                  BigDecimalOfField(outAmountFeeUsd)), 6))]

\* src/src/routes/trades-csv.ts:112-125: a falsy value is written as an empty
\* cell, a string with a comma in quotes, anything else as it is.
convertToCSV(field) ==
    [blank |-> field.blank, quoted |-> Grouped(field), value |-> field.value]

\* src/src/routes/trades-csv.ts:312-335: the export of the row; a row that
\* throws makes the whole export fail.
ExportCsv ==
    /\ csvRow.kind = "none"
    /\ LET usd == csvDataForTradeUsd(trade, mints.output, outputPrice)
       IN  /\ csvUsd' = usd
           /\ csvRow' = IF usd.kind = "error"
                            THEN [NoCsvRow EXCEPT !.kind = "error"]
                            ELSE csvDataForTrade(trade, mints.output)
    /\ UNCHANGED <<loaderVars, priceLookup, outputPrice, amountCell, events, timestamp, rounded, trade,
                   mints, subtractFee, outputCell, restored, dollarAmount,
                   rateCell, wanted, tokenPrices, priceCache, storedApiKey,
                   network, pc, tokenPricesToFetch, birdeyeApiKey,
                   rememberApiKey, idx, fetchedTokenPrices, aborted, timer,
                   requests, answers, abortPoint, failure>>

\* One row: every pair of an output amount and a fee, of either encoding.
InitRow ==
    /\ InitFetcher(<<>>)
    /\ NoLoader
    /\ NoEvents
    /\ NoLookup
    /\ \E o \in RawAmounts \cup AdjustedAmounts,
          f \in RawAmounts \cup AdjustedAmounts :
          trade = [inputAmount |-> AmountToDisplay(Decimal(1, 0), FALSE),
                   outputAmount |-> o, fee |-> f]
    /\ \E known \in BOOLEAN, d \in 0..MaxDecimals :
          mints = [input |-> MintData(TRUE, 0), output |-> MintData(known, d)]
    /\ subtractFee = FALSE
    /\ outputCell = NoCell
    /\ restored = NoAmount
    /\ csvRow = NoCsvRow
    /\ NoValues

NextRow ==
    \/ \E page \in {"values", "prices"} : ShowRow(page)
    \/ SwitchSubtractFee
    \/ AddFeeBack
    \/ ExportCsv

SpecRow == InitRow /\ [][NextRow]_vars

\* ------------------------------------------------- the dollar value

RECURSIVE Pow5(_)
Pow5(n) == IF n = 0 THEN 1 ELSE 5 * Pow5(n - 1)

\* A JavaScript number is a binary floating-point number m * 2^e.  The
\* decimal number units / 10^scale is one exactly when, written in lowest
\* terms, its denominator is a power of two, that is when 5^scale divides
\* units (the amounts here are far below 2^53).
IsDouble(d) == Normalize(d).units % Pow5(Normalize(d).scale) = 0

\* src/src/routes/trades.tsx:432-449: Number(amount) for an adjusted amount,
\* Number(amount) / 10 ** decimals for a raw one, each the double nearest to
\* the decimal number; `rounded` tells that this double is not the number.
calculateDollarAmount(amount, tokenPrice, tokenMintData) ==
    IF ~amount.adjustedForDecimals /\ ~tokenMintData.known
        THEN [NoDollarAmount EXCEPT !.kind = "undefined"]
        ELSE LET tokenAmount ==
                     IF amount.adjustedForDecimals
                         THEN amount.amount
                         ELSE Decimal(amount.amount.units,
                                      amount.amount.scale + tokenMintData.decimals)
             IN  [kind |-> "number",
                  tokenAmount |-> tokenAmount,
                  rounded |-> ~IsDouble(tokenAmount),
                  value |-> Decimal(tokenPrice * tokenAmount.units,
                                    tokenAmount.scale)]

\* src/src/routes/trades.tsx:473-477: the amount cell works out the dollar
\* value of the amount it shows once the price of the mint is there.
ShowDollarAmount(tokenPrice) ==
    /\ outputCell.shown.kind = "amount"
    /\ dollarAmount.kind = "none"
    /\ dollarAmount' =
          calculateDollarAmount(
              AmountToDisplay(outputCell.shown.amount,
                              outputCell.shown.adjustedForDecimals),
              tokenPrice, mints.output)
    /\ UNCHANGED <<loaderVars, usdVars, events, timestamp, rounded, trade, mints, subtractFee,
                   outputCell, restored, csvRow, rateCell, wanted, tokenPrices,
                   priceCache, storedApiKey, network, pc, tokenPricesToFetch,
                   birdeyeApiKey, rememberApiKey, idx, fetchedTokenPrices,
                   aborted, timer, requests, answers, abortPoint, failure>>

\* One row without a fee: every amount, and the raw amount 1500000 of a mint
\* with 6 decimals.
InitDollar ==
    /\ InitFetcher(<<>>)
    /\ NoLoader
    /\ NoEvents
    /\ NoLookup
    /\ NoValues
    /\ \E o \in RawAmounts \cup AdjustedAmounts
                 \cup {AmountToDisplay(Decimal(ExampleRawAmount, 0), FALSE)} :
          trade = [inputAmount |-> AmountToDisplay(Decimal(1, 0), FALSE),
                   outputAmount |-> o,
                   fee |-> AmountToDisplay(Decimal(0, 0), o.adjustedForDecimals)]
    /\ \E known \in BOOLEAN, d \in 0..MaxDecimals \cup {ExampleDecimals} :
          mints = [input |-> MintData(TRUE, 0), output |-> MintData(known, d)]
    /\ subtractFee = FALSE
    /\ outputCell = NoCell
    /\ restored = NoAmount
    /\ csvRow = NoCsvRow

NextDollar ==
    \/ \E page \in {"values", "prices"} : ShowRow(page)
    \/ \E tokenPrice \in Prices : ShowDollarAmount(tokenPrice)
    \/ ExportCsv

SpecDollar == InitDollar /\ [][NextDollar]_vars

\* ------------------------------------------------- the rate of a trade

\* js-big-decimal divide(divisor, precision): throws "Cannot divide by 0" on
\* a divisor of value zero; otherwise the quotient rounded (half to even) to
\* `precision` fractional digits.
DivisionByZero(divisor) == divisor.units = 0

BigDecimalDivide(dividend, divisor, precision) ==
    LET n == dividend.units * Pow10(divisor.scale + precision)
        d == divisor.units * Pow10(dividend.scale)
        q == n \div d
        r == n % d
    IN  Decimal(IF 2 * r > d \/ (2 * r = d /\ q % 2 = 1) THEN q + 1 ELSE q,
                precision)

\* src/src/routes/trades.tsx:556-593: both rates are computed, whichever the
\* cell shows; a division that throws makes getRates throw.
getRates(inputAmountToDisplay, outputAmountToDisplay, inputMintData, outputMintData) ==
    LET inputAmountBigDecimal ==
            getAmountBigDecimal(inputAmountToDisplay, inputMintData.decimals)
        outputAmountBigDecimal ==
            getAmountBigDecimal(outputAmountToDisplay, outputMintData.decimals)
    IN  IF \/ DivisionByZero(outputAmountBigDecimal)
           \/ DivisionByZero(inputAmountBigDecimal)
            THEN [NoRates EXCEPT !.kind = "error"]
            ELSE [kind |-> "rates",
                  rateInputOverOutput |->
                      BigDecimalDivide(inputAmountBigDecimal,
                                       outputAmountBigDecimal,
                                       inputMintData.decimals),
                  rateOutputOverInput |->
                      BigDecimalDivide(outputAmountBigDecimal,
                                       inputAmountBigDecimal,
                                       outputMintData.decimals)]

\* src/src/routes/trades.tsx:604-645: "Unknown" when the data of a mint is
\* missing, the rates otherwise.
RateCell(inputAmountToDisplay, outputAmountToDisplay, inputMintData, outputMintData) ==
    IF ~inputMintData.known \/ ~outputMintData.known
        THEN [NoRates EXCEPT !.kind = "unknown"]
        ELSE getRates(inputAmountToDisplay, outputAmountToDisplay,
                      inputMintData, outputMintData)

\* src/src/routes/trades.tsx:879-888: the row renders its rate cell.
ShowRateCell ==
    /\ rateCell.kind = "none"
    /\ rateCell' = RateCell(trade.inputAmount, trade.outputAmount, mints.input,
                            mints.output)
    /\ UNCHANGED <<loaderVars, usdVars, events, timestamp, rounded, trade, mints, subtractFee,
                   outputCell, restored, csvRow, dollarAmount, wanted,
                   tokenPrices, priceCache, storedApiKey, network, pc,
                   tokenPricesToFetch, birdeyeApiKey, rememberApiKey, idx,
                   fetchedTokenPrices, aborted, timer, requests, answers,
                   abortPoint, failure>>

\* One row: every pair of an input and an output amount, zero included.
InitRates ==
    /\ InitFetcher(<<>>)
    /\ NoLoader
    /\ NoEvents
    /\ NoLookup
    /\ NoValues
    /\ \E i \in RawAmounts \cup AdjustedAmounts,
          o \in RawAmounts \cup AdjustedAmounts :
          trade = [inputAmount |-> i, outputAmount |-> o,
                   fee |-> AmountToDisplay(Decimal(0, 0), o.adjustedForDecimals)]
    /\ \E ki \in BOOLEAN, di \in 0..MaxDecimals,
          ko \in BOOLEAN, do \in 0..MaxDecimals :
          mints = [input |-> MintData(ki, di), output |-> MintData(ko, do)]
    /\ subtractFee = FALSE
    /\ outputCell = NoCell
    /\ restored = NoAmount
    /\ csvRow = NoCsvRow

NextRates == ShowRateCell

SpecRates == InitRates /\ [][NextRates]_vars

\* ------------------------------------------------- the USD value of a row

\* src/src/routes/trades.tsx:463-550: the cell is the link "Unknown Token"
\* when the data of the mint is missing; otherwise it shows the amount, and
\* under it the dollar amount when that is a number other than 0.
TokenAmountCell(amountToDisplay, tokenMintData, tokenPrice) ==
    LET dollar == IF tokenPrice.known /\ tokenPrice.value # 0
                      THEN calculateDollarAmount(amountToDisplay,
                                                 tokenPrice.value, tokenMintData)
                      ELSE [NoDollarAmount EXCEPT !.kind = "undefined"]
    IN  IF ~tokenMintData.known
            THEN [NoAmountCell EXCEPT !.kind = "unknown token"]
            ELSE [kind |-> "amount",
                  usdAmount |-> IF dollar.kind = "number" /\ dollar.value.units # 0
                                    THEN UsdField(FALSE, dollar.value)
                                    ELSE BlankUsd]

\* src/src/routes/trades.tsx:869-878: the row renders the cell of its output
\* amount with the price of the output mint.
ShowTokenAmountCell ==
    /\ outputCell.shown.kind = "amount"
    /\ amountCell.kind = "none"
    /\ amountCell' =
          TokenAmountCell(AmountToDisplay(outputCell.shown.amount,
                                          outputCell.shown.adjustedForDecimals),
                          mints.output, outputPrice)
    /\ UNCHANGED <<loaderVars, priceLookup, outputPrice, csvUsd, events, timestamp, rounded, trade,
                   mints, subtractFee, outputCell, restored, csvRow,
                   dollarAmount, rateCell, wanted, tokenPrices, priceCache,
                   storedApiKey, network, pc, tokenPricesToFetch, birdeyeApiKey,
                   rememberApiKey, idx, fetchedTokenPrices, aborted, timer,
                   requests, answers, abortPoint, failure>>

\* The amounts of one encoding.
AmountsLike(amountToDisplay) ==
    IF amountToDisplay.adjustedForDecimals THEN AdjustedAmounts ELSE RawAmounts

\* One row: every output amount, the raw amount 1500000 included, with a fee
\* of the same encoding, and the price of the output mint fetched or not.
InitUsd ==
    /\ InitFetcher(<<>>)
    /\ NoLoader
    /\ NoEvents
    /\ NoLookup
    /\ \E o \in RawAmounts \cup AdjustedAmounts
                 \cup {AmountToDisplay(Decimal(ExampleRawAmount, 0), FALSE)} :
          \E f \in AmountsLike(o) :
              trade = [inputAmount |-> AmountToDisplay(Decimal(1, 0), FALSE),
                       outputAmount |-> o, fee |-> f]
    /\ \E known \in BOOLEAN, d \in 0..MaxDecimals \cup {ExampleDecimals} :
          mints = [input |-> MintData(TRUE, 0), output |-> MintData(known, d)]
    /\ \E known \in BOOLEAN, p \in Prices :
          outputPrice = IF known THEN [known |-> TRUE, value |-> p] ELSE NoPrice
    /\ subtractFee = FALSE
    /\ outputCell = NoCell
    /\ restored = NoAmount
    /\ csvRow = NoCsvRow
    /\ dollarAmount = NoDollarAmount
    /\ rateCell = NoRates
    /\ csvUsd = NoCsvUsd
    /\ amountCell = NoAmountCell
    /\ priceLookup = NoPriceLookup

NextUsd ==
    \/ \E page \in {"values", "prices"} : ShowRow(page)
    \/ ShowTokenAmountCell
    \/ ExportCsv

SpecUsd == InitUsd /\ [][NextUsd]_vars

\* ------------------------------------------------- the price of an event

\* fetchedTokenPrices[key]: undefined when the map has no such key.
PriceIn(prices, key) ==
    IF key \in DOMAIN prices THEN [known |-> TRUE, value |-> prices[key]]
                             ELSE NoPrice

\* A lookup under the second of the event itself.
getTokenPriceAtSecond(prices, mintAddress, date) ==
    PriceIn(prices, FetchedTokenPriceKey(mintAddress, date \div 1000))

\* src/src/routes/trades.tsx:896-905
getTokenPrice(prices, mintAddress, date) ==
    LET seconds == date \div 1000
        roundedTimestamp == roundTimestampToMinuteBoundary(seconds)
    IN  PriceIn(prices, FetchedTokenPriceKey(mintAddress, roundedTimestamp))

\* src/src/routes/trades-csv.ts:148-156
getUsdPrice(mintAddress, seconds, prices) ==
    PriceIn(prices,
            FetchedTokenPriceKey(mintAddress,
                                 roundTimestampToMinuteBoundary(seconds)))

\* src/src/routes/trades.tsx:832-846 and src/src/routes/trades-csv.ts:215-233:
\* the row of the table and the row of the file look up the price of a mint
\* at the date of an event in the map batch b returned.
LookUpPrice(b, mint, date) ==
    /\ pc[b] = "returned"
    /\ priceLookup.kind = "none"
    /\ priceLookup' =
          [kind |-> "done", mint |-> mint, date |-> date,
           table |-> getTokenPrice(fetchedTokenPrices[b], mint, date),
           csv |-> getUsdPrice(mint, date \div 1000, fetchedTokenPrices[b])]
    /\ UNCHANGED <<loaderVars, outputPrice, csvUsd, amountCell, events,
                   timestamp, rounded, trade, mints, subtractFee, outputCell,
                   restored, csvRow, dollarAmount, rateCell, wanted,
                   tokenPrices, priceCache, storedApiKey, network, pc,
                   tokenPricesToFetch, birdeyeApiKey, rememberApiKey, idx,
                   fetchedTokenPrices, aborted, timer, requests, answers,
                   abortPoint, failure>>

\* One batch, and a lookup in the map it returned for a mint at any date.
NextLookup ==
    \/ Next
    \/ \E mint \in Mints, date \in EventDates : LookUpPrice(1, mint, date)

SpecLookup == Init /\ [][NextLookup]_vars

\* ------------------------------------------------- the loader of a page

\* The provider schemas the page with values reads, and those the page with
\* prices reads.
OldSchemas == {"dca", "value average", "limit order"}

NewSchemas == {"recurring", "trigger"}

OrderKeys == <<"o1", "o2">>

\* A trade of an order as the provider reports it.
Fills ==
    {[confirmedAt |-> t, outAmount |-> FillAmount, fee |-> f] :
        t \in Timestamps, f \in 0..MaxFee}

FillsOfOrder == UNION {[1..n -> Fills] : n \in 0..MaxFills}

\* The orders of one schema family, each under its own key.
OrdersOf(schemas) ==
    {os \in [1..MaxOrders ->
                [orderKey : {OrderKeys[i] : i \in 1..MaxOrders},
                 schema : schemas, createdAt : Timestamps,
                 trades : FillsOfOrder]] :
        \A i \in 1..MaxOrders : os[i].orderKey = OrderKeys[i]}

\* src/src/routes/trades.tsx:96-117, part_016:148-170: one provider trade
\* as a Trade event; the maker decides how each amount is tagged.
TradeOfFill(fill, order, adjustedForDecimals, feeAdjustedForDecimals) ==
    [kind |-> "trade",
     date |-> fill.confirmedAt * 1000,
     inputAmount |-> AmountToDisplay(Decimal(1, 0), adjustedForDecimals),
     outputAmount |-> AmountToDisplay(Decimal(fill.outAmount, 0),
                                      adjustedForDecimals),
     fee |-> AmountToDisplay(Decimal(fill.fee, 0), feeAdjustedForDecimals),
     orderType |-> order.schema,
     orderKey |-> order.orderKey]

\* orders.flatMap((order) => order.trades.map(...))
RECURSIVE MakeTrades(_, _, _)
MakeTrades(os, adjustedForDecimals, feeAdjustedForDecimals) ==
    IF os = <<>> THEN <<>>
    ELSE [i \in 1..Len(Head(os).trades) |->
             TradeOfFill(Head(os).trades[i], Head(os), adjustedForDecimals,
                         feeAdjustedForDecimals)]
         \o MakeTrades(Tail(os), adjustedForDecimals, feeAdjustedForDecimals)

\* orders.map((order) => ({kind: "deposit", ...}))
MakeDeposits(os, adjustedForDecimals) ==
    [i \in 1..Len(os) |->
        [kind |-> "deposit",
         date |-> os[i].createdAt * 1000,
         inputAmount |-> AmountToDisplay(Decimal(1, 0), adjustedForDecimals),
         orderType |-> os[i].schema,
         orderKey |-> os[i].orderKey]]

\* The orders of one schema whose key is among `keys`.
SelectedOrders(os, schema, keys) ==
    SelectSeq(os, LAMBDA order : order.schema = schema /\ order.orderKey \in keys)

\* The keys of the URL under the parameter of one schema: the page that
\* builds the URL puts each key under the parameter of its order.
KeysOf(os, schema, keys) ==
    {os[i].orderKey : i \in {j \in 1..Len(os) : os[j].schema = schema}}
        \cap keys

\* src/src/routes/trades.tsx:84-119: the fills of each key are fetched.
getDCAFills(dcaKeys, os) ==
    MakeTrades(SelectedOrders(os, "dca", dcaKeys), FALSE, FALSE)

\* src/src/routes/trades.tsx:121-159
getValueAverageFills(valueAverageKeys, os) ==
    MakeTrades(SelectedOrders(os, "value average", valueAverageKeys),
               FALSE, FALSE)

\* Limit-order trades whose fee is tagged as a raw amount.
getLimitOrderTradesRawFee(limitOrderKeys, os) ==
    MakeTrades(SelectedOrders(os, "limit order", limitOrderKeys), TRUE, FALSE)

\* src/src/routes/trades.tsx:161-195
getLimitOrderTrades(limitOrderKeys, os) ==
    MakeTrades(SelectedOrders(os, "limit order", limitOrderKeys), TRUE, TRUE)

\* src/src/routes/trades.tsx:197-270
getDeposits(dcaKeys, valueAverageKeys, limitOrderKeys, os) ==
    MakeDeposits(SelectedOrders(os, "dca", dcaKeys), FALSE)
    \o MakeDeposits(SelectedOrders(os, "value average", valueAverageKeys),
                    FALSE)
    \o MakeDeposits(SelectedOrders(os, "limit order", limitOrderKeys), TRUE)

\* Every recurring order of the user, selected or not.
getAllRecurringOrders(recurringKeys, os) ==
    SelectSeq(os, LAMBDA order : order.schema = "recurring")

\* src/unnamed/part_016:80-90
getSelectedRecurringOrders(recurringKeys, os) ==
    SelectedOrders(os, "recurring", recurringKeys)

\* src/unnamed/part_016:92-102
getSelectedTriggerOrders(triggerKeys, os) ==
    SelectedOrders(os, "trigger", triggerKeys)

\* src/unnamed/part_016:104-122
makeDepositsForRecurringOrders(os) == MakeDeposits(os, TRUE)

\* src/unnamed/part_016:124-141
makeDepositsForTriggerOrders(os) == MakeDeposits(os, TRUE)

\* src/unnamed/part_016:143-172
makeTradesForRecurringOrders(os) == MakeTrades(os, TRUE, TRUE)

\* src/unnamed/part_016:174-202
makeTradesForTriggerOrders(os) == MakeTrades(os, TRUE, TRUE)

\* src/src/routes/trades.tsx:282-302: [...deposits, ...allTrades] of the page
\* with values; a list of keys that is empty is not fetched.
EventsOfValuesPage(keys, os) ==
    LET dcaKeys == KeysOf(os, "dca", keys)
        valueAverageKeys == KeysOf(os, "value average", keys)
        limitOrderKeys == KeysOf(os, "limit order", keys)
        dcaTrades == IF dcaKeys # {} THEN getDCAFills(dcaKeys, os) ELSE <<>>
        valueAverageTrades ==
            IF valueAverageKeys # {}
                THEN getValueAverageFills(valueAverageKeys, os) ELSE <<>>
        limitOrderTrades ==
            IF limitOrderKeys # {}
                THEN getLimitOrderTrades(limitOrderKeys, os) ELSE <<>>
        deposits ==
            IF dcaKeys # {} \/ valueAverageKeys # {} \/ limitOrderKeys # {}
                THEN getDeposits(dcaKeys, valueAverageKeys, limitOrderKeys, os)
                ELSE <<>>
    IN  deposits \o dcaTrades \o valueAverageTrades \o limitOrderTrades

\* src/unnamed/part_016:216-233: [...deposits, ...trades] of the page with
\* prices.
EventsOfPricesPage(keys, os) ==
    LET recurringOrders ==
            getSelectedRecurringOrders(KeysOf(os, "recurring", keys), os)
        triggerOrders ==
            getSelectedTriggerOrders(KeysOf(os, "trigger", keys), os)
    IN  makeDepositsForRecurringOrders(recurringOrders)
        \o makeDepositsForTriggerOrders(triggerOrders)
        \o makeTradesForRecurringOrders(recurringOrders)
        \o makeTradesForTriggerOrders(triggerOrders)

NormalizedEvents(page, keys, os) ==
    IF page = "values" THEN EventsOfValuesPage(keys, os)
                       ELSE EventsOfPricesPage(keys, os)

\* The event e put into the sorted list es behind every event that does not
\* come after it.
RECURSIVE InsertByDate(_, _)
InsertByDate(e, es) ==
    IF es = <<>> THEN <<e>>
    ELSE IF Head(es).date - e.date <= 0
        THEN <<Head(es)>> \o InsertByDate(e, Tail(es))
        ELSE <<e>> \o es

\* The list as it is.
NotSorted(es) == es

\* src/src/routes/trades.tsx:310-312, part_016:242-244: Array.prototype.sort
\* with (a, b) => a.date.getTime() - b.date.getTime(), a stable sort.
RECURSIVE SortByDate(_)
SortByDate(es) ==
    IF es = <<>> THEN <<>>
    ELSE InsertByDate(es[Len(es)], SortByDate(SubSeq(es, 1, Len(es) - 1)))

\* src/src/routes/trades.tsx:272-320, part_016:204-255
loader(page, keys, os) ==
    [kind |-> "events", page |-> page,
     events |-> SortByDate(NormalizedEvents(page, keys, os))]

\* The page of the schemas the provider lists.
PageOf(os) ==
    IF \A i \in 1..Len(os) : os[i].schema \in OldSchemas THEN "values"
                                                          ELSE "prices"

\* The page is opened with the keys `keys` in its URL.
Load(keys) ==
    /\ loaded.kind = "none"
    /\ selection' = keys
    /\ loaded' = loader(PageOf(orders), keys, orders)
    /\ UNCHANGED <<orders, usdVars, events, timestamp, rounded, trade, mints,
                   subtractFee, outputCell, restored, csvRow, dollarAmount,
                   rateCell, wanted, tokenPrices, priceCache, storedApiKey,
                   network, pc, tokenPricesToFetch, birdeyeApiKey,
                   rememberApiKey, idx, fetchedTokenPrices, aborted, timer,
                   requests, answers, abortPoint, failure>>

\* src/src/routes/trades.tsx:1194-1208 and 813-831: the table renders the row
\* of a trade of the list, the switch in its first position.
ShowLoadedRow(i) ==
    /\ loaded.kind = "events"
    /\ i \in 1..Len(loaded.events)
    /\ loaded.events[i].kind = "trade"
    /\ outputCell.page = "none"
    /\ LET event == loaded.events[i]
       IN  /\ trade' = [inputAmount |-> event.inputAmount,
                        outputAmount |-> event.outputAmount,
                        fee |-> event.fee]
           /\ subtractFee' = (loaded.page = "prices")
           /\ outputCell' =
                 [page |-> loaded.page,
                  shown |-> IF loaded.page = "values"
                               THEN adjustOutputAmountForFee(
                                        event.outputAmount, event.fee, FALSE)
                               ELSE adjustOutputAmountForFeeAdding(
                                        event.outputAmount, event.fee, TRUE)]
    /\ UNCHANGED <<loaderVars, usdVars, events, timestamp, rounded, mints,
                   restored, csvRow, dollarAmount, rateCell, wanted,
                   tokenPrices, priceCache, storedApiKey, network, pc,
                   tokenPricesToFetch, birdeyeApiKey, rememberApiKey, idx,
                   fetchedTokenPrices, aborted, timer, requests, answers,
                   abortPoint, failure>>

\* The orders of the user at the provider, of one schema family.
InitLoader ==
    /\ InitFetcher(<<>>)
    /\ NoEvents
    /\ NoLookup
    /\ NoRow
    /\ \E schemas \in {OldSchemas, NewSchemas} :
          \E os \in OrdersOf(schemas) : orders = os
    /\ selection = {}
    /\ loaded = NoLoaded

NextLoader ==
    \/ \E keys \in SUBSET {OrderKeys[i] : i \in 1..MaxOrders} : Load(keys)
    \/ \E i \in 1..(MaxOrders * (MaxFills + 1)) : ShowLoadedRow(i)
    \/ SwitchSubtractFee

SpecLoader == InitLoader /\ [][NextLoader]_vars

\* ------------------------------------------------------------ the logs

RequestKey(b, n) == requests[b][n][1]
RequestsFor(b, k) == {n \in 1..Len(requests[b]) : RequestKey(b, n) = k}
RequestedKeys(b) == {RequestKey(b, n) : n \in 1..Len(requests[b])}
AnsweredWith(b, k, kind) ==
    \E n \in RequestsFor(b, k) : n <= Len(answers[b]) /\ answers[b][n].kind = kind
Resolved(b) == DOMAIN fetchedTokenPrices[b]

\* -------------------------------------------------------------- claims

\* C1: under a provider that answers every request for key K with 429, the
\* batch sends at most two requests for K, K is absent from the returned map,
\* and every key the provider answered with a price is in the map with it.
C1_RetryBound ==
    \A k \in RequestedKeys(1) :
        (/\ pc[1] = "returned"
         /\ \A n \in RequestsFor(1, k) : answers[1][n].kind = "429")
        => /\ Cardinality(RequestsFor(1, k)) <= 2
           /\ k \notin Resolved(1)
           /\ \A n \in 1..Len(answers[1]) :
                 answers[1][n].kind = "price" =>
                    /\ RequestKey(1, n) \in Resolved(1)
                    /\ fetchedTokenPrices[1][RequestKey(1, n)] = answers[1][n].price

\* C2: in a batch of five distinct keys, when the signal is set once the first
\* key has resolved (the loop is at its head, only the first key is in the
\* map), the call returns a map with exactly that one entry and no request is
\* started after the moment of cancellation.
CancelledAfterFirst ==
    /\ aborted[1]
    /\ abortPoint[1].pc = "loop"
    /\ abortPoint[1].resolved = {KeyOf(FiveKeys[1])}

C4_OneCallPerKey ==
    \A k \in RequestedKeys(1) :
        Cardinality({n \in RequestsFor(1, k) : requests[1][n][2] = "first"}) <= 1

\* C5: within one batch at most one price-history request is in flight at any
\* time.
C5_OneInFlight ==
    \A b \in Batches : Cardinality(InFlight(b)) <= 1

C5_Witness ==
    /\ \E r \in network : r.attempt = "retry" /\ r.seq > 2
    /\ Cardinality(InFlight(1)) = 1

\* C6: when two batches overlap and both contain the same key, the provider
\* never has two requests for that key in flight.
C6_Coalesced ==
    \A r1 \in network : \A r2 \in network : r1.key = r2.key => r1 = r2

\* C7: a key answered with a non-success status other than 429 is absent from
\* the returned map, and the keys after it are still requested.
C7_FailedKeyAbsent ==
    \A n \in 1..Len(answers[1]) :
        (pc[1] = "returned" /\ answers[1][n].kind = "500") =>
            /\ RequestKey(1, n) \notin Resolved(1)
            /\ ~aborted[1] =>
                  \A i \in 1..Len(tokenPricesToFetch[1]) :
                     KeyOf(tokenPricesToFetch[1][i]) \in RequestedKeys(1)

LastAnswer(b) == answers[b][Len(answers[b])]

C11_WrittenOnce ==
    [][\A k \in DOMAIN tokenPrices :
          k \in DOMAIN tokenPrices' /\ tokenPrices'[k] = tokenPrices[k]]_vars

\* The status of key k inside batch b, read off the state of the loop and its
\* logs: "fetched" once the key is in the result map, "in-flight" from the
\* request until its last answer has been handled (the cooldown and the retry
\* included), "fetched-missing" after a body without a price, "failed" after
\* any other answer, "unfetched" before the first request.
AllKeys == {KeyOf(e) : e \in Mints \X (Timestamps \cup {130})}

LastRequestFor(b, k) ==
    CHOOSE n \in RequestsFor(b, k) : \A m \in RequestsFor(b, k) : m <= n

KeyStatus(b, k) ==
    IF k \in Resolved(b) THEN "fetched"
    ELSE IF pc[b] \in {"fetch", "cooldown", "retry", "json"} /\ CurrentKey(b) = k
        THEN "in-flight"
    ELSE IF RequestsFor(b, k) = {} THEN "unfetched"
    ELSE IF /\ LastRequestFor(b, k) <= Len(answers[b])
            /\ answers[b][LastRequestFor(b, k)].kind \in {"empty", "unsuccessful"}
        THEN "fetched-missing"
    ELSE "failed"

TerminalStatuses == {"fetched", "fetched-missing", "failed"}

\* C12: inside one batch the status of every key only moves along
\* unfetched -> in-flight -> {fetched, fetched-missing, failed}: a terminal
\* status is never left, and none is reached without having been in flight.
C12_KeyStatusMoves ==
    [][\A k \in AllKeys :
          \/ KeyStatus(1, k)' = KeyStatus(1, k)
          \/ KeyStatus(1, k) = "unfetched" /\ KeyStatus(1, k)' = "in-flight"
          \/ KeyStatus(1, k) = "in-flight" /\ KeyStatus(1, k)' \in TerminalStatuses]_vars

\* The keys of the lookups of batch b, in the order they were supplied.
SuppliedKey(b, i) == KeyOf(tokenPricesToFetch[b][i])

FirstPosition(b, k) ==
    CHOOSE i \in 1..Len(tokenPricesToFetch[b]) :
        /\ SuppliedKey(b, i) = k
        /\ \A j \in 1..(i - 1) : SuppliedKey(b, j) # k

\* C13: within one batch the keys are requested in the order in which they
\* were supplied: when a key is requested, every key supplied before it has
\* been requested earlier, and two requests for different keys come in the
\* order of the keys in the input.
C13_RequestOrder ==
    \A m \in 1..Len(requests[1]) :
        /\ \A i \in 1..(FirstPosition(1, RequestKey(1, m)) - 1) :
              \E n \in 1..(m - 1) : RequestKey(1, n) = SuppliedKey(1, i)
        /\ \A n \in 1..(m - 1) :
              RequestKey(1, n) # RequestKey(1, m) =>
                 FirstPosition(1, RequestKey(1, n)) < FirstPosition(1, RequestKey(1, m))

C13_Witness ==
    /\ pc[1] = "returned"
    /\ Len(requests[1]) >= 2
    /\ RequestKey(1, 1) # RequestKey(1, Len(requests[1]))
    /\ RequestKey(1, 1) = SuppliedKey(1, 1)
    /\ RequestKey(1, Len(requests[1])) = SuppliedKey(1, 2)

\* The keys a list of events needs: both mints of every trade and the input
\* mint of every deposit, at the bucket of the event's timestamp.
RequiredKeys(es) ==
    UNION {{FetchedTokenPriceKey(es[i].inputMint,
                roundTimestampToMinuteBoundary(TimestampOf(es[i]))),
            FetchedTokenPriceKey(es[i].outputMint,
                roundTimestampToMinuteBoundary(TimestampOf(es[i])))} :
              i \in 1..Len(es)}

\* C14: the keys derived from a list of events are exactly the (mint, bucket)
\* pairs of the input and output mint of every trade and of the input mint of
\* every deposit, with no other pair and no pair twice.
C14_RequiredKeys ==
    wanted # <<>> =>
        /\ {KeyOf(wanted[i]) : i \in 1..Len(wanted)} = RequiredKeys(events)
        /\ \A i \in 1..Len(wanted) : \A j \in 1..Len(wanted) :
              i # j => KeyOf(wanted[i]) # KeyOf(wanted[j])

\* C15: for every non-negative integer timestamp t the rounding is idempotent
\* (bucket(bucket(t)) = bucket(t)), its result is a multiple of 60, and
\* 0 <= t - bucket(t) < 60.
C15_Bucket ==
    /\ \A i \in 1..Len(rounded) : rounded[i] % 60 = 0
    /\ Len(rounded) >= 1 =>
          /\ 0 <= timestamp - rounded[1]
          /\ timestamp - rounded[1] < 60
    /\ Len(rounded) = 2 => rounded[2] = rounded[1]

C15_Witness ==
    /\ Len(rounded) = 2
    /\ timestamp > 120
    /\ timestamp % 60 > 30

\* The renders that combined the output amount with the fee.
CellCombined ==
    /\ outputCell.page # "none"
    /\ subtractFee = (outputCell.page = "values")

\* C16: every operation that combines the output amount with the fee fails
\* with an encoding-mismatch error when the two amounts do not carry the same
\* encoding (the table with the switch in either position and the CSV
\* export), and keeps the shared encoding when they do.
C16_MismatchFails ==
    /\ CellCombined =>
          IF EncodingMismatch(trade.outputAmount, trade.fee)
              THEN outputCell.shown.kind = "error"
              ELSE /\ outputCell.shown.kind = "amount"
                   /\ outputCell.shown.adjustedForDecimals =
                         trade.outputAmount.adjustedForDecimals
    /\ (csvRow.kind # "none" /\ EncodingMismatch(trade.outputAmount, trade.fee))
          => csvRow.kind = "error"

\* C17: for every pair (gross, fee) of amounts with the same encoding,
\* subtracting the fee from gross and then adding the fee to the result gives
\* back the value of gross exactly, in the same encoding, for raw amounts
\* (integer arithmetic) and for adjusted amounts (decimal arithmetic).
C17_RoundTrip ==
    restored.kind # "none" =>
        /\ restored.kind = "amount"
        /\ restored.adjustedForDecimals = trade.outputAmount.adjustedForDecimals
        /\ Normalize(restored.amount) = Normalize(trade.outputAmount.amount)

C17_Witness ==
    /\ restored.kind = "amount"
    /\ restored.adjustedForDecimals
    /\ trade.fee.amount.units > trade.outputAmount.amount.units
    /\ trade.fee.amount.scale # trade.outputAmount.amount.scale
    /\ outputCell.shown.amount.units < 0

\* The amount after the fee, taken as output minus fee.
ExpectedNet(decimals) ==
    BigDecimalSubtract(getAmountBigDecimal(trade.outputAmount, decimals),
                       getAmountBigDecimal(trade.fee, decimals))

\* C18: for every trade the amount after the fee that is shown or exported
\* is the trade's output amount minus its fee, and the stored output amount
\* is the amount before the fee in every consumer: the table with the switch
\* on and off, and the gross, fee and net columns of the CSV.
C18_NetIsOutputMinusFee ==
    ~EncodingMismatch(trade.outputAmount, trade.fee) =>
        /\ (outputCell.page # "none" /\ outputCell.shown.kind = "amount") =>
              Normalize(outputCell.shown.amount) =
                 IF subtractFee THEN Normalize(ExpectedNet(0))
                                ELSE Normalize(trade.outputAmount.amount)
        /\ csvRow.kind = "row" =>
              /\ Normalize(csvRow.outAmountNet) =
                    Normalize(ExpectedNet(mints.output.decimals))
              /\ Normalize(csvRow.outAmount) =
                    Normalize(getAmountBigDecimal(trade.outputAmount,
                                                  mints.output.decimals))
              /\ Normalize(csvRow.outAmountFee) =
                    Normalize(getAmountBigDecimal(trade.fee,
                                                  mints.output.decimals))

\* The decimal value of an amount: v / 10^d for a raw amount with d decimals,
\* the amount itself for an adjusted one.
ToDecimal(amountToDisplay, decimals) ==
    IF amountToDisplay.adjustedForDecimals
        THEN amountToDisplay.amount
        ELSE Decimal(amountToDisplay.amount.units, decimals)

\* C19: converting an amount to a decimal gives exactly v / 10^d for a raw
\* amount and the value unchanged for an adjusted one, in the path that
\* values an amount on the page and in the path that exports it; no path
\* gives a rounded binary floating-point number.
C19_ExactDecimal ==
    /\ dollarAmount.kind = "number" =>
          /\ ~dollarAmount.rounded
          /\ Normalize(dollarAmount.tokenAmount) =
                Normalize(ToDecimal(trade.outputAmount, mints.output.decimals))
    /\ csvRow.kind = "row" =>
          Normalize(csvRow.outAmountNet) =
             Normalize(ToDecimal(trade.outputAmount,
                                 IF mints.output.known
                                    THEN mints.output.decimals ELSE 0))

\* C20: computing the two exchange rates of a trade gives "unknown" and
\* raises no error whenever the input amount or the output amount is zero.
C20_ZeroGivesUnknown ==
    (/\ rateCell.kind # "none"
     /\ \/ trade.inputAmount.amount.units = 0
        \/ trade.outputAmount.amount.units = 0)
    => rateCell.kind = "unknown"

\* C21: with the price known, the USD value of an amount is blank exactly
\* when the amount is raw and the data of its mint is missing, in the
\* exported file and in the amount cell of the table alike.
C21_BlankOnlyForRawWithoutMint ==
    /\ (csvUsd.kind = "row" /\ outputPrice.known)
        => (csvUsd.outAmountUsd.blank
               <=> (~trade.outputAmount.adjustedForDecimals
                       /\ ~mints.output.known))
    /\ (amountCell.kind # "none" /\ outputPrice.known)
        => (amountCell.usdAmount.blank
               <=> (~outputCell.shown.adjustedForDecimals
                       /\ ~mints.output.known))

\* C22: when the price of the output mint is absent, the export and the
\* render succeed, the three USD columns of the output amount are empty in
\* the file and the amount cell shows no USD value.
C22_AbsentPriceBlank ==
    /\ (csvRow.kind # "none" /\ ~outputPrice.known)
        => /\ csvUsd.kind = "row"
           /\ convertToCSV(csvUsd.outAmountUsd).blank
           /\ convertToCSV(csvUsd.outAmountFeeUsd).blank
           /\ convertToCSV(csvUsd.outAmountNetUsd).blank
    /\ (amountCell.kind # "none" /\ ~outputPrice.known)
        => amountCell.usdAmount.blank

\* The USD value of a token column at the price of the output mint.
UsdOf(tokens) ==
    Normalize(BigDecimalRound(
        BigDecimalMultiply(tokens, Decimal(outputPrice.value, 0)), 6))

\* C26: in an exported trade row, with the price p of the output mint known,
\* each USD column is p times the token column next to it, and net is gross
\* minus fee in tokens and in USD.
C26_UsdColumnsFollowTokenColumns ==
    (csvRow.kind = "row" /\ csvUsd.kind = "row" /\ outputPrice.known)
    => /\ Normalize(csvUsd.outAmountUsd.value) = UsdOf(csvRow.outAmount)
       /\ Normalize(csvUsd.outAmountFeeUsd.value) = UsdOf(csvRow.outAmountFee)
       /\ Normalize(csvUsd.outAmountNetUsd.value) = UsdOf(csvRow.outAmountNet)
       /\ Normalize(csvRow.outAmountNet)
             = Normalize(BigDecimalSubtract(csvRow.outAmount,
                                            csvRow.outAmountFee))
       /\ Normalize(csvUsd.outAmountNetUsd.value)
             = Normalize(BigDecimalSubtract(csvUsd.outAmountUsd.value,
                                            csvUsd.outAmountFeeUsd.value))

\* The number of times the event e is in the list es.
Occurrences(e, es) == Cardinality({i \in 1..Len(es) : es[i] = e})

\* C23: the event list the loader returns holds every deposit and trade it
\* normalized, each as often as it was normalized, and its timestamps never
\* decrease.
C23_SortedPermutation ==
    loaded.kind = "events"
    => LET normalized == NormalizedEvents(loaded.page, selection, orders)
       IN  /\ Len(loaded.events) = Len(normalized)
           /\ \A i \in 1..Len(normalized) :
                 Occurrences(normalized[i], loaded.events)
                    = Occurrences(normalized[i], normalized)
           /\ \A i \in 1..(Len(loaded.events) - 1) :
                 loaded.events[i].date <= loaded.events[i + 1].date

\* A list of three events or more that the loader had to reorder.
C23_Witness ==
    /\ loaded.kind = "events"
    /\ Len(loaded.events) >= 3
    /\ loaded.events # NormalizedEvents(loaded.page, selection, orders)

\* C27: every trade the loader returns has the same tag on its output amount
\* and on its fee, and no render of its row, whatever the position of the
\* fee switch, throws.
C27_SameTag ==
    /\ loaded.kind = "events"
        => \A i \in 1..Len(loaded.events) :
              loaded.events[i].kind = "trade"
              => loaded.events[i].outputAmount.adjustedForDecimals
                    = loaded.events[i].fee.adjustedForDecimals
    /\ outputCell.shown.kind # "error"

\* The row of a limit-order trade with a fee, rendered with the fee
\* subtracted after the switch was flipped.
C27_Witness ==
    /\ loaded.kind = "events"
    /\ outputCell.page = "values"
    /\ subtractFee
    /\ trade.outputAmount.adjustedForDecimals
    /\ trade.fee.amount.units # 0
    /\ outputCell.shown.kind = "amount"

\* C28: every event the loader returns belongs to an order whose key is in
\* the URL, and without keys the list is empty.
C28_OnlySelected ==
    loaded.kind = "events"
    => /\ \A i \in 1..Len(loaded.events) :
             loaded.events[i].orderKey \in selection
       /\ selection = {} => loaded.events = <<>>

\* One order selected, while the other order, which has a trade, is not.
C28_Witness ==
    /\ loaded.kind = "events"
    /\ selection = {OrderKeys[1]}
    /\ orders[2].trades # <<>>
    /\ loaded.events # <<>>

\* What localStorage holds after the action of batch b has written to it.
StoredAfter(b) == IF rememberApiKey'[b] THEN birdeyeApiKey'[b] ELSE ""

\* Batch b settles in this step.
Settles(b) == pc[b] \notin Terminal /\ pc'[b] \in Terminal

\* C24 as stated: an action that returns leaves the submitted key in storage
\* if the checkbox was on and no key if it was off; an action that fails or
\* is cancelled leaves storage as it was; nothing else writes the key.
C24_CancelLeavesStoredKey ==
    [][/\ \A b \in Batches :
             Settles(b) =>
                 IF pc'[b] = "rejected" \/ aborted'[b]
                     THEN storedApiKey' = storedApiKey
                     ELSE storedApiKey' = StoredAfter(b)
       /\ (\A b \in Batches : ~Settles(b)) => storedApiKey' = storedApiKey]_vars

\* C24 as amended: an action that returns, one that returns because it was
\* cancelled between two lookups included, leaves the submitted key in
\* storage if the checkbox was on and no key if it was off; an action that
\* rejects leaves storage as it was; nothing else writes the key.
C24_StoredOnReturnOnly ==
    [][/\ \A b \in Batches :
             Settles(b) =>
                 IF pc'[b] = "rejected"
                     THEN storedApiKey' = storedApiKey
                     ELSE storedApiKey' = StoredAfter(b)
       /\ (\A b \in Batches : ~Settles(b)) => storedApiKey' = storedApiKey]_vars

\* A cancelled action returned and stored its key; the next action, with the
\* checkbox off, returned and removed it.
C24_Witness ==
    /\ aborted[1]
    /\ pc[1] = "returned"
    /\ rememberApiKey[1]
    /\ pc[2] = "returned"
    /\ ~rememberApiKey[2]
    /\ storedApiKey = ""

Smaller(a, b) == IF a <= b THEN a ELSE b

\* C25: for a trade with input and output amounts other than zero, the
\* product of the two rates differs from 1 by no more than one unit of the
\* last digit of the smaller of the decimals of the two mints.
C25_RatesInverse ==
    rateCell.kind = "rates"
    => LET product == BigDecimalMultiply(rateCell.rateInputOverOutput,
                                         rateCell.rateOutputOverInput)
           decimals == Smaller(mints.input.decimals, mints.output.decimals)
       IN  Abs(product.units - Pow10(product.scale))
              <= Pow10(product.scale - decimals)

\* The start of the minute the second t falls in.
BucketOf(t) == BucketSeconds * (t \div BucketSeconds)

\* C29: every key of the map a batch builds is a mint with a multiple of 60
\* that is the minute of a lookup of that mint in the input; and the table
\* and the exported file look an event up under the same key, so that when
\* the key of the minute of the event is in the map both find its price.
C29_SameKey ==
    /\ \A b \in Batches : \A key \in DOMAIN fetchedTokenPrices[b] :
          /\ key[2] % 60 = 0
          /\ \E i \in 1..Len(tokenPricesToFetch[b]) :
                /\ tokenPricesToFetch[b][i][1] = key[1]
                /\ BucketOf(tokenPricesToFetch[b][i][2]) = key[2]
    /\ priceLookup.kind = "done"
        => LET key == <<priceLookup.mint, BucketOf(priceLookup.date \div 1000)>>
           IN  /\ priceLookup.table = priceLookup.csv
               /\ key \in DOMAIN fetchedTokenPrices[1]
                    => priceLookup.table =
                          [known |-> TRUE, value |-> fetchedTokenPrices[1][key]]

\* An event 20.5 seconds into a minute whose price the batch resolved.
C29_Witness ==
    /\ priceLookup.kind = "done"
    /\ priceLookup.date = 20500
    /\ priceLookup.table.known

\* The entries of batch b the loop has reached.
EntriesReached(b) == Smaller(idx[b], Len(tokenPricesToFetch[b]))

\* C30: a batch sends at most two requests for each entry it is given, a
\* first one and, right after it and for the same key, at most one retry;
\* and once submitted it ends by returning or rejecting.
C30_Terminates ==
    /\ [](Cardinality({n \in 1..Len(requests[1]) : requests[1][n][2] = "first"})
             <= EntriesReached(1))
    /\ [](\A n \in 1..Len(requests[1]) :
             requests[1][n][2] = "retry"
             => /\ n > 1
                /\ requests[1][n - 1] = <<requests[1][n][1], "first">>)
    /\ (pc[1] \in Running ~> pc[1] \in Terminal)

\* Two entries, each answered 429 and tried again: four requests, and the
\* batch returned.
C30_Witness ==
    /\ pc[1] = "returned"
    /\ Len(tokenPricesToFetch[1]) = 2
    /\ Len(requests[1]) = 4

====
